---- MODULE Spec2Model ----
(***************************************************************************)
(* Planning layer of the video grid generator                              *)
(* (src/video_grid_generator_v2_advanced.py and its siblings):             *)
(*   - calculate_optimal_grid      the grid layout search                  *)
(*   - get_video_crop_params       the square crop window of one source    *)
(*   - create_balanced_video_list  the selection of clips for the cells    *)
(* Each function is modelled as a small state machine that follows its     *)
(* statements; the inputs are drawn in Init.                                *)
(*                                                                         *)
(* The layout search compares Python floats; the model computes them bit   *)
(* for bit (see the float section below).                                  *)
(***************************************************************************)
EXTENDS Integers, Sequences, FiniteSets

VARIABLES
    \* calculate_optimal_grid
    num_videos, target_width, target_height,
    g_rows, best_ratio_diff, best_layout, g_pc, g_raised,
    \* get_video_crop_params
    crop_mode, width, height, square_size, crop_x, crop_y, c_pc, c_raised,
    \* create_balanced_video_list
    task_videos, grid_size, max_videos, shuffle,
    all_videos, selected_videos, s_result, s_pc, s_raised,
    \* the filter graph of create_video_grid / create_video_grid_v2_advanced
    k_rows, k_cols, cell_width, cell_height, duration, video_files, used_videos,
    video_params, filter_complex, rows_inputs, output_map, row, k_pc, k_raised,
    \* create_video_grid_v2_advanced, the driver
    input_dir, grid_layout, d_target_width, d_target_height, d_max_videos, d_shuffle,
    d_crop_mode, probe_calls, layout_calls, engine_calls, exit_code,
    d_result, d_pc, d_raised

gridVars == <<num_videos, target_width, target_height,
              g_rows, best_ratio_diff, best_layout, g_pc, g_raised>>
cropVars == <<crop_mode, width, height, square_size, crop_x, crop_y, c_pc, c_raised>>
samplerVars == <<task_videos, grid_size, max_videos, shuffle,
                 all_videos, selected_videos, s_result, s_pc, s_raised>>
compileVars == <<k_rows, k_cols, cell_width, cell_height, duration, video_files, used_videos,
                 video_params, filter_complex, rows_inputs, output_map, row, k_pc, k_raised>>
driverVars == <<input_dir, grid_layout, d_target_width, d_target_height, d_max_videos,
                d_shuffle, d_crop_mode, probe_calls, layout_calls, engine_calls, exit_code,
                d_result, d_pc, d_raised>>
vars == <<gridVars, cropVars, samplerVars, compileVars, driverVars>>

-----------------------------------------------------------------------------
(* Bounds of the model *)

MaxVideos == 21
MaxDim == 6
MaxSrcDim == 6
MaxSupply == 3
MaxSlots == 4

(* Program constants *)

\* for rows in range(1, 20)
RowRangeEnd == 20

Abs(x) == IF x < 0 THEN -x ELSE x
Min(a, b) == IF a < b THEN a ELSE b
Max(a, b) == IF a < b THEN b ELSE a

\* Python's None
None == <<>>
-----------------------------------------------------------------------------
(* calculate_optimal_grid(num_videos, target_width, target_height) *)

\* math.ceil(num_videos / rows), rows >= 1, num_videos >= 0 (the float quotient of
\* integers this small is an integer exactly when the division is exact)
Ceil(n, r) == (n + r - 1) \div r

-----------------------------------------------------------------------------
(* Python floats (IEEE-754 binary64, round to nearest, ties to even).      *)
(* A positive float is <<e, m>>: m is its 53 mantissa bits, leading bit 1, *)
(* and its value is the sum of m[i] * 2^(e - (i - 1)).  Zero and +inf are  *)
(* the all-zero mantissa under an exponent below / above every other.      *)
(* The operands of the layout search stay below 2^12, far from subnormal   *)
(* numbers and from overflow.                                              *)

MantissaBits == 53
MaxExponent == 12

Zeros(k) == [i \in 1 .. k |-> 0]
FZero == <<-9999, Zeros(MantissaBits)>>
\* float('inf')
Inf == <<9999, Zeros(MantissaBits)>>

\* the next 53 bits of r / den (0 <= r < den < 2^12), 18 + 18 + 17 at a time,
\* and a flag: is anything left behind them
DivBits(r, den) ==
    LET q1 == (r * 2^18) \div den
        r1 == (r * 2^18) % den
        q2 == (r1 * 2^18) \div den
        r2 == (r1 * 2^18) % den
        q3 == (r2 * 2^17) \div den
        r3 == (r2 * 2^17) % den
    IN  <<[i \in 1 .. MantissaBits |->
              IF i <= 18 THEN (q1 \div 2^(18 - i)) % 2
              ELSE IF i <= 36 THEN (q2 \div 2^(36 - i)) % 2
              ELSE (q3 \div 2^(53 - i)) % 2],
          IF r3 = 0 THEN 0 ELSE 1>>

\* bits + 1 on a mantissa that is not all ones
Increment(m) ==
    LET j == CHOOSE j \in 1 .. Len(m) :
                 /\ m[j] = 0
                 /\ \A k \in (j + 1) .. Len(m) : m[k] = 1
    IN  [i \in 1 .. Len(m) |-> IF i < j THEN m[i] ELSE IF i = j THEN 1 ELSE 0]

\* round the bit string bits (leading bit 1, exponent e) to 53 bits;
\* sticky = 1 when non-zero bits were dropped behind it
RoundToFloat(e, bits, sticky) ==
    IF Len(bits) <= MantissaBits
       THEN <<e, bits \o Zeros(MantissaBits - Len(bits))>>
       ELSE LET m == SubSeq(bits, 1, MantissaBits)
                guard == bits[MantissaBits + 1]
                rest == \/ sticky = 1
                        \/ \E i \in (MantissaBits + 2) .. Len(bits) : bits[i] = 1
                up == guard = 1 /\ (rest \/ m[MantissaBits] = 1)
            IN  IF ~up THEN <<e, m>>
                ELSE IF \A i \in 1 .. MantissaBits : m[i] = 1
                        THEN <<e + 1, <<1>> \o Zeros(MantissaBits - 1)>>
                        ELSE <<e, Increment(m)>>

\* a / b for integers a >= 0, b > 0
FloatDiv(a, b) ==
    IF a = 0 THEN FZero
    ELSE LET e == CHOOSE x \in (-MaxExponent) .. MaxExponent :
                      IF x >= 0 THEN b * 2^x <= a /\ a < b * 2^(x + 1)
                      ELSE b <= a * 2^(-x) /\ a * 2^(-x) < 2 * b
             num == IF e >= 0 THEN a ELSE a * 2^(-e)
             den == IF e >= 0 THEN b * 2^e ELSE b
             tail == DivBits(num - den, den)
         IN  RoundToFloat(e, <<1>> \o tail[1], tail[2])

\* x < y on mantissas of equal length
BitsLess(x, y) ==
    \E i \in 1 .. Len(x) :
        /\ x[i] < y[i]
        /\ \A j \in 1 .. (i - 1) : x[j] = y[j]

\* x < y on floats
Less(x, y) == x[1] < y[1] \/ (x[1] = y[1] /\ BitsLess(x[2], y[2]))

\* big - small on bit strings of equal length, big >= small; the borrow into
\* bit i is set when the bits behind i of big are less than those of small
SubBits(big, small) ==
    LET n == Len(big)
        borrow(i) == \E j \in (i + 1) .. n :
                         /\ big[j] < small[j]
                         /\ \A k \in (i + 1) .. (j - 1) : big[k] = small[k]
    IN  [i \in 1 .. n |->
            (big[i] - small[i] - (IF borrow(i) THEN 1 ELSE 0) + 2) % 2]

\* x - y for floats x > y >= 0
FloatSubOrdered(x, y) ==
    IF y = FZero THEN x
    ELSE LET d == x[1] - y[1]
             big == x[2] \o Zeros(d)
             small == Zeros(d) \o y[2]
             diff == SubBits(big, small)
             lead == CHOOSE i \in 1 .. Len(diff) :
                         diff[i] = 1 /\ \A j \in 1 .. (i - 1) : diff[j] = 0
         IN  RoundToFloat(x[1] - (lead - 1), SubSeq(diff, lead, Len(diff)), 0)

\* abs(x - y)
FloatAbsDiff(x, y) ==
    IF Less(x, y) THEN FloatSubOrdered(y, x)
    ELSE IF Less(y, x) THEN FloatSubOrdered(x, y)
    ELSE FZero

\* grid_ratio = cols / rows ; target_ratio = target_width / target_height ;
\* ratio_diff = abs(grid_ratio - target_ratio)
RatioDiff(cols, rows, w, h) == FloatAbsDiff(FloatDiv(cols, rows), FloatDiv(w, h))

\* if ratio_diff < best_ratio_diff: a later candidate wins only when strictly better
\* (faulty variant: the comparison turned around)
BetterFlipped(ratio_diff, best) == Less(best, ratio_diff)
Better(ratio_diff, best) == Less(ratio_diff, best)

\* cell_width = target_width // cols ; cell_height = target_height // rows
CellSize(extent, parts) == extent \div parts

VideoCounts == (0 .. MaxVideos) \cup {80, 121}
Canvases == ((0 .. MaxDim) \X (0 .. MaxDim)) \cup {<<1920, 1080>>}

GridIdle ==
    /\ num_videos = 0 /\ target_width = 0 /\ target_height = 0
    /\ g_rows = 0 /\ best_ratio_diff = Inf /\ best_layout = None
    /\ g_pc = "idle" /\ g_raised = "none"

GridInit ==
    /\ num_videos \in VideoCounts
    /\ \E c \in Canvases : target_width = c[1] /\ target_height = c[2]
    /\ g_rows = 0 /\ best_ratio_diff = Inf /\ best_layout = None
    /\ g_pc = "enter" /\ g_raised = "none"

\* target_ratio = target_width / target_height ; best_ratio_diff = inf ; best_layout = None
GridEnter ==
    /\ g_pc = "enter"
    /\ IF target_height = 0
          THEN /\ g_raised' = "ZeroDivisionError"
               /\ g_pc' = "raised"
               /\ UNCHANGED g_rows
          ELSE /\ g_rows' = 1
               /\ g_pc' = "loop"
               /\ UNCHANGED g_raised
    /\ UNCHANGED <<num_videos, target_width, target_height, best_ratio_diff, best_layout>>
    /\ UNCHANGED <<cropVars, samplerVars, compileVars, driverVars>>

\* one pass of: for rows in range(1, 20)
GridIter ==
    /\ g_pc = "loop"
    /\ g_rows < RowRangeEnd
    /\ LET cols == Ceil(num_videos, g_rows)
           ratio_diff == RatioDiff(cols, g_rows, target_width, target_height)
       IN  IF g_rows * cols >= num_videos
              THEN IF cols = 0
                      \* target_width // cols
                      THEN /\ g_raised' = "ZeroDivisionError"
                           /\ g_pc' = "raised"
                           /\ UNCHANGED <<g_rows, best_ratio_diff, best_layout>>
                      ELSE /\ IF Better(ratio_diff, best_ratio_diff)
                                 THEN /\ best_ratio_diff' = ratio_diff
                                      /\ best_layout' = <<g_rows, cols,
                                                          CellSize(target_width, cols),
                                                          CellSize(target_height, g_rows)>>
                                 ELSE UNCHANGED <<best_ratio_diff, best_layout>>
                           /\ g_rows' = g_rows + 1
                           /\ UNCHANGED <<g_pc, g_raised>>
              ELSE /\ g_rows' = g_rows + 1
                   /\ UNCHANGED <<best_ratio_diff, best_layout, g_pc, g_raised>>
    /\ UNCHANGED <<num_videos, target_width, target_height>>
    /\ UNCHANGED <<cropVars, samplerVars, compileVars, driverVars>>

\* return best_layout
GridReturn ==
    /\ g_pc = "loop"
    /\ g_rows = RowRangeEnd
    /\ g_pc' = "done"
    /\ UNCHANGED <<num_videos, target_width, target_height,
                   g_rows, best_ratio_diff, best_layout, g_raised>>
    /\ UNCHANGED <<cropVars, samplerVars, compileVars, driverVars>>

-----------------------------------------------------------------------------
(* get_video_crop_params(video_path, crop_mode) *)

CropModes == {"center", "top", "bottom", "middle"}
SrcDims == (1 .. MaxSrcDim) \cup {1080, 1920}

\* crop_x = (width - square_size) // 2 in every branch
CropX(mode, w, h, size) == (w - size) \div 2

\* crop_y per crop_mode; the else branch repeats the center branch
\* (faulty variants: bottom without subtracting the size; the top branch missing)
CropYBottomFull(mode, w, h, size) ==
    IF mode = "center" THEN (h - size) \div 2
    ELSE IF mode = "top" THEN 0
    ELSE IF mode = "bottom" THEN h
    ELSE (h - size) \div 2
CropYNoTop(mode, w, h, size) ==
    IF mode = "bottom" THEN h - size
    ELSE (h - size) \div 2
CropY(mode, w, h, size) ==
    IF mode = "center" THEN (h - size) \div 2
    ELSE IF mode = "top" THEN 0
    ELSE IF mode = "bottom" THEN h - size
    ELSE (h - size) \div 2

CropIdle ==
    /\ crop_mode = "center" /\ width = 0 /\ height = 0
    /\ square_size = 0 /\ crop_x = 0 /\ crop_y = 0
    /\ c_pc = "idle" /\ c_raised = "none"

CropInit ==
    /\ crop_mode \in CropModes
    /\ width = 0 /\ height = 0
    /\ square_size = 0 /\ crop_x = 0 /\ crop_y = 0
    /\ c_pc = "probe" /\ c_raised = "none"

\* video_info = get_video_info(video_path); the first video stream's width and height
CropProbe ==
    /\ c_pc = "probe"
    /\ \E w \in SrcDims, h \in SrcDims : width' = w /\ height' = h
    /\ c_pc' = "compute"
    /\ UNCHANGED <<crop_mode, square_size, crop_x, crop_y, c_raised>>
    /\ UNCHANGED <<gridVars, samplerVars, compileVars, driverVars>>

\* next(s for s in video_info['streams'] if ...) finds no video stream
CropProbeFails ==
    /\ c_pc = "probe"
    /\ c_raised' = "StopIteration"
    /\ c_pc' = "raised"
    /\ UNCHANGED <<crop_mode, width, height, square_size, crop_x, crop_y>>
    /\ UNCHANGED <<gridVars, samplerVars, compileVars, driverVars>>

\* square_size = min(width, height) and the crop_mode branches; return
CropCompute ==
    /\ c_pc = "compute"
    /\ square_size' = Min(width, height)
    /\ crop_x' = CropX(crop_mode, width, height, Min(width, height))
    /\ crop_y' = CropY(crop_mode, width, height, Min(width, height))
    /\ c_pc' = "done"
    /\ UNCHANGED <<crop_mode, width, height, c_raised>>
    /\ UNCHANGED <<gridVars, samplerVars, compileVars, driverVars>>

-----------------------------------------------------------------------------
(* create_balanced_video_list(task_videos, grid_size, max_videos, shuffle)  *)
(* task_videos is a dict in insertion order: a sequence of                  *)
(* <<task_name, videos>>.  A video path is <<task_name, k>>, the k-th file  *)
(* of that task's folder, so discovered paths are pairwise distinct.        *)
(* max_videos = 0 stands for None as well: both are falsy in                *)
(* "if max_videos and ...".                                                 *)

TaskNames == <<"taskA", "taskB">>


\* the dicts of at most Len(TaskNames) tasks holding at most MaxSupply videos
GroupSizes ==
    UNION {{sz \in [1 .. k -> 0 .. MaxSupply] :
               (IF k >= 1 THEN sz[1] ELSE 0) + (IF k >= 2 THEN sz[2] ELSE 0) <= MaxSupply}
           : k \in 0 .. Len(TaskNames)}
TaskVideosOf(sz) ==
    [g \in 1 .. Len(sz) |-> <<TaskNames[g], [k \in 1 .. sz[g] |-> <<TaskNames[g], k>>]>>]

GridSizes ==
    {gs \in ((-1) .. MaxSlots) \X (0 .. MaxSlots) :
        gs[1] * gs[2] >= -1 /\ gs[1] * gs[2] <= MaxSlots}

\* (faulty variant: a shuffle that may copy an item over another)
ShuffleOrdersAny ==
    [n \in 0 .. Max(MaxSupply, MaxSlots) |-> [1 .. n -> 1 .. n]]
\* the permutations of 1 .. n, as random.shuffle may leave a list of n items
ShuffleOrders ==
    [n \in 0 .. Max(MaxSupply, MaxSlots) |->
        {p \in [1 .. n -> 1 .. n] : \A i, j \in 1 .. n : p[i] = p[j] => i = j}]

\* seq[:k] of Python: k < 0 counts from the end
PySliceTo(seq, k) ==
    IF k >= 0 THEN SubSeq(seq, 1, Min(k, Len(seq)))
    ELSE SubSeq(seq, 1, Max(Len(seq) + k, 0))

\* total_slots = rows * cols
TotalSlots(gs) == gs[1] * gs[2]

\* for task_name, videos in task_videos.items(): for video in videos:
\*     all_videos.append((video, task_name))
RECURSIVE Flatten(_)
Flatten(tv) ==
    IF tv = <<>> THEN <<>>
    ELSE [k \in 1 .. Len(tv[1][2]) |-> <<tv[1][2][k], tv[1][1]>>] \o Flatten(Tail(tv))

\* if max_videos and len(all_videos) > max_videos: all_videos = all_videos[:max_videos]
\* (faulty variant: the cap keeps the last entries instead of the first)
LimitLast(all, limit) ==
    IF limit # 0 /\ Len(all) > limit
       THEN SubSeq(all, Len(all) - limit + 1, Len(all)) ELSE all
Limit(all, limit) ==
    IF limit # 0 /\ Len(all) > limit THEN PySliceTo(all, limit) ELSE all

\* needed = total_slots - len(all_videos)
\* (faulty variant: one draw short)
NeededOneLess(total_slots, all) == total_slots - Len(all) - 1
Needed(total_slots, all) == total_slots - Len(all)

\* all_videos.extend(additional_videos), additional_videos[i] = all_videos[draw[i]]
\* (faulty variant: the draws replace the list instead of extending it)
ExtendReplacing(all, draw) == [i \in 1 .. Len(draw) |-> all[draw[i]]]
Extend(all, draw) == all \o [i \in 1 .. Len(draw) |-> all[draw[i]]]

\* return [video for video, _ in selected_videos]
Videos(selected) == [i \in 1 .. Len(selected) |-> selected[i][1]]

SamplerIdle ==
    /\ task_videos = <<>> /\ grid_size = <<0, 0>> /\ max_videos = 0 /\ shuffle = FALSE
    /\ all_videos = <<>> /\ selected_videos = <<>> /\ s_result = None
    /\ s_pc = "idle" /\ s_raised = "none"

SamplerInit ==
    /\ \E sz \in GroupSizes : task_videos = TaskVideosOf(sz)
    /\ grid_size \in GridSizes
    /\ max_videos \in 0 .. MaxSupply
    /\ shuffle \in BOOLEAN
    /\ all_videos = <<>> /\ selected_videos = <<>> /\ s_result = None
    /\ s_pc = "collect" /\ s_raised = "none"

\* lines 103-106: flatten the groups, each video tagged with its task
SamplerCollect ==
    /\ s_pc = "collect"
    /\ all_videos' = Flatten(task_videos)
    /\ s_pc' = "limit"
    /\ UNCHANGED <<task_videos, grid_size, max_videos, shuffle,
                   selected_videos, s_result, s_raised>>
    /\ UNCHANGED <<gridVars, cropVars, compileVars, driverVars>>

\* lines 109-111: the max_videos cap
SamplerLimit ==
    /\ s_pc = "limit"
    /\ all_videos' = Limit(all_videos, max_videos)
    /\ s_pc' = "fill"
    /\ UNCHANGED <<task_videos, grid_size, max_videos, shuffle,
                   selected_videos, s_result, s_raised>>
    /\ UNCHANGED <<gridVars, cropVars, compileVars, driverVars>>

\* lines 116-120: random.choices(all_videos, k=needed) appended when videos are short;
\* random.choices raises IndexError on an empty list
SamplerFill ==
    /\ s_pc = "fill"
    /\ IF Len(all_videos) < TotalSlots(grid_size)
          THEN IF all_videos = <<>>
                  THEN /\ s_raised' = "IndexError"
                       /\ s_pc' = "raised"
                       /\ UNCHANGED all_videos
                  ELSE /\ \E draw \in [1 .. Needed(TotalSlots(grid_size), all_videos)
                                          -> 1 .. Len(all_videos)] :
                              all_videos' = Extend(all_videos, draw)
                       /\ s_pc' = "shuffle"
                       /\ UNCHANGED s_raised
          ELSE /\ s_pc' = "shuffle"
               /\ UNCHANGED <<all_videos, s_raised>>
    /\ UNCHANGED <<task_videos, grid_size, max_videos, shuffle, selected_videos, s_result>>
    /\ UNCHANGED <<gridVars, cropVars, compileVars, driverVars>>

\* lines 123-125: random.shuffle(all_videos)
SamplerShuffle ==
    /\ s_pc = "shuffle"
    /\ IF shuffle
          THEN \E p \in ShuffleOrders[Len(all_videos)] :
                  all_videos' = [i \in 1 .. Len(all_videos) |-> all_videos[p[i]]]
          ELSE UNCHANGED all_videos
    /\ s_pc' = "select"
    /\ UNCHANGED <<task_videos, grid_size, max_videos, shuffle,
                   selected_videos, s_result, s_raised>>
    /\ UNCHANGED <<gridVars, cropVars, compileVars, driverVars>>

\* lines 128-139: selected_videos = all_videos[:total_slots]; return the videos
SamplerSelect ==
    /\ s_pc = "select"
    /\ selected_videos' = PySliceTo(all_videos, TotalSlots(grid_size))
    /\ s_result' = Videos(PySliceTo(all_videos, TotalSlots(grid_size)))
    /\ s_pc' = "done"
    /\ UNCHANGED <<task_videos, grid_size, max_videos, shuffle, all_videos, s_raised>>
    /\ UNCHANGED <<gridVars, cropVars, compileVars, driverVars>>

-----------------------------------------------------------------------------
(* The filter graph: video_grid_generator_v2_advanced.py lines 205-240, the  *)
(* same statements as video_grid_generator.py lines 127-170 and              *)
(* video_grid_generator_advanced.py lines 142-183.  A node is one entry of   *)
(* filter_complex; a label is the bracketed name a node writes or reads,     *)
(* kept as the characters the f-string produces.                             *)

MaxGridSide == 4
MaxClips == 17

DigitChars == <<"0", "1", "2", "3", "4", "5", "6", "7", "8", "9">>

\* str(i) of a non-negative int, as the f-strings format video_idx and row
RECURSIVE Digits(_)
Digits(i) ==
    IF i < 10 THEN <<DigitChars[i + 1]>>
    ELSE Digits(i \div 10) \o <<DigitChars[(i % 10) + 1]>>

PrefixV == <<"v">>
PrefixBlack == <<"b", "l", "a", "c", "k">>
PrefixRow == <<"r", "o", "w">>

\* (faulty variant: only the last digit of the index is written)
LabelLastDigit(prefix, i) == <<"[">> \o prefix \o <<DigitChars[(i % 10) + 1]>> \o <<"]">>
\* f"[v{i}]", f"[black{video_idx}]", f"[row{row}]"
Label(prefix, i) == <<"[">> \o prefix \o Digits(i) \o <<"]">>
\* "[final]"
FinalLabel == <<"[", "f", "i", "n", "a", "l", "]">>

\* the dict get_video_crop_params returns for a source of w x h (lines 70-95)
ParamsOf(mode, w, h) ==
    [original_width |-> w, original_height |-> h, square_size |-> Min(w, h),
     crop_x |-> CropX(mode, w, h, Min(w, h)), crop_y |-> CropY(mode, w, h, Min(w, h))]

\* f"[{i}:v]crop={s}:{s}:{x}:{y},scale={cell_width}:{cell_height}[v{i}]"
CropScale(i, params, cw, ch) ==
    [kind |-> "cropscale", src |-> i,
     crop |-> <<params.square_size, params.square_size, params.crop_x, params.crop_y>>,
     scale |-> <<cw, ch>>, inputs |-> <<>>, out |-> Label(PrefixV, i)]

\* f"color=black:{cell_width}x{cell_height}:duration={duration}[black{video_idx}]"
ColorFill(video_idx, cw, ch, d) ==
    [kind |-> "color", size |-> <<cw, ch>>, duration |-> d,
     inputs |-> <<>>, out |-> Label(PrefixBlack, video_idx)]

\* f"{row_input}hstack=inputs={len(row_videos)}[row{row}]"
HStack(row_videos, r) ==
    [kind |-> "hstack", inputs |-> row_videos, n |-> Len(row_videos),
     out |-> Label(PrefixRow, r)]

\* f"{rows_input}vstack=inputs={len(rows_inputs)}[final]"
VStack(inputs) ==
    [kind |-> "vstack", inputs |-> inputs, n |-> Len(inputs), out |-> FinalLabel]

\* video_idx = row * cols + col, for col in range(cols)
RowIndices(r, c) == [col \in 1 .. c |-> r * c + (col - 1)]

\* (faulty variant: every cell reads a clip label, also when the clips ran out)
RowVideosNoFill(r, c, used) == [col \in 1 .. c |-> Label(PrefixV, RowIndices(r, c)[col])]
\* (faulty variant: the cells of a row are listed right to left)
RowVideosReversed(r, c, used) ==
    [col \in 1 .. c |->
        IF RowIndices(r, c)[c + 1 - col] < Len(used)
           THEN Label(PrefixV, RowIndices(r, c)[c + 1 - col])
           ELSE Label(PrefixBlack, RowIndices(r, c)[c + 1 - col])]
\* row_videos after the inner loop: "[v{idx}]" while clips last, "[black{idx}]" after
RowVideos(r, c, used) ==
    [col \in 1 .. c |->
        IF RowIndices(r, c)[col] < Len(used)
           THEN Label(PrefixV, RowIndices(r, c)[col])
           ELSE Label(PrefixBlack, RowIndices(r, c)[col])]

\* (faulty variant: no color node is appended)
RowFillsNone(r, c, used, cw, ch, d) == <<>>
\* the color nodes the inner loop appends for one row
RowFills(r, c, used, cw, ch, d) ==
    LET short == SelectSeq(RowIndices(r, c), LAMBDA idx : idx >= Len(used))
    IN  [j \in 1 .. Len(short) |-> ColorFill(short[j], cw, ch, d)]

\* (faulty variant: a row of one cell gets a stack node too)
RowIsStackedAlways(row_videos) == Len(row_videos) > 0
\* if len(row_videos) > 1
RowIsStacked(row_videos) == Len(row_videos) > 1

\* (faulty variant: the list is passed on uncut)
UsedUncut(files, r, c) == files
\* used_videos = video_files[:rows * cols]
Used(files, r, c) == PySliceTo(files, r * c)

CellSizes == {<<1, 1>>, <<480, 270>>}
Durations == {5, 30}
\* what the probes of the clips may have returned: one crop for all, or one per clip
ProbePatterns == {"uniform", "perclip"}
ClipParams(pattern, k) ==
    IF pattern = "uniform" THEN ParamsOf("center", 1920, 1080)
    ELSE ParamsOf("top", k + 1, 2 * k)

CompileUnset ==
    /\ k_rows = 0 /\ k_cols = 0 /\ cell_width = 0 /\ cell_height = 0
    /\ video_files = <<>> /\ used_videos = <<>> /\ video_params = <<>>
    /\ filter_complex = <<>> /\ rows_inputs = <<>> /\ output_map = None
    /\ row = 0 /\ k_pc = "idle" /\ k_raised = "none"
CompileIdle == CompileUnset /\ duration = 0

\* the state at line 127 of create_video_grid: layout, cell size and clips are known
CompileInit ==
    /\ k_rows \in 1 .. MaxGridSide /\ k_cols \in 1 .. MaxGridSide
    /\ \E size \in CellSizes : cell_width = size[1] /\ cell_height = size[2]
    /\ duration \in Durations
    /\ \E n \in 1 .. MaxClips : \E pattern \in ProbePatterns :
          /\ video_files = [k \in 1 .. n |-> <<TaskNames[1], k>>]
          /\ video_params = [k \in 1 .. n |-> ClipParams(pattern, k)]
    /\ used_videos = <<>> /\ filter_complex = <<>> /\ rows_inputs = <<>>
    /\ output_map = None /\ row = 0 /\ k_pc = "use" /\ k_raised = "none"

\* video_grid_generator.py line 128: the clips are limited to the grid size
CompileUse ==
    /\ k_pc = "use"
    /\ used_videos' = Used(video_files, k_rows, k_cols)
    /\ k_pc' = "crops"
    /\ UNCHANGED <<k_rows, k_cols, cell_width, cell_height, duration, video_files,
                   video_params, filter_complex, rows_inputs, output_map, row, k_raised>>
    /\ UNCHANGED <<gridVars, cropVars, samplerVars, driverVars>>

\* lines 206-212: one crop and scale node per used clip
CompileCrops ==
    /\ k_pc = "crops"
    /\ filter_complex' = [i \in 1 .. Len(used_videos) |->
                             CropScale(i - 1, video_params[i], cell_width, cell_height)]
    /\ rows_inputs' = <<>>
    /\ row' = 0
    /\ k_pc' = "k_rows"
    /\ UNCHANGED <<k_rows, k_cols, cell_width, cell_height, duration, video_files,
                   used_videos, video_params, output_map, k_raised>>
    /\ UNCHANGED <<gridVars, cropVars, samplerVars, driverVars>>

\* lines 216-232: one pass of "for row in range(rows)"; row_videos[0] of an empty
\* row raises IndexError
CompileRow ==
    /\ k_pc = "k_rows"
    /\ row < k_rows
    /\ LET row_videos == RowVideos(row, k_cols, used_videos)
           fills == RowFills(row, k_cols, used_videos, cell_width, cell_height, duration)
       IN  IF RowIsStacked(row_videos)
              THEN /\ filter_complex' = filter_complex \o fills \o <<HStack(row_videos, row)>>
                   /\ rows_inputs' = Append(rows_inputs, Label(PrefixRow, row))
                   /\ row' = row + 1
                   /\ UNCHANGED <<k_pc, k_raised>>
              ELSE IF row_videos = <<>>
                      THEN /\ k_raised' = "IndexError"
                           /\ k_pc' = "raised"
                           /\ UNCHANGED <<filter_complex, rows_inputs, row>>
                      ELSE /\ filter_complex' = filter_complex \o fills
                           /\ rows_inputs' = Append(rows_inputs, row_videos[1])
                           /\ row' = row + 1
                           /\ UNCHANGED <<k_pc, k_raised>>
    /\ UNCHANGED <<k_rows, k_cols, cell_width, cell_height, duration, video_files,
                   used_videos, video_params, output_map>>
    /\ UNCHANGED <<gridVars, cropVars, samplerVars, driverVars>>

\* lines 235-240: the rows are stacked; rows_inputs[0] of no rows raises IndexError
CompileFinal ==
    /\ k_pc = "k_rows"
    /\ row >= k_rows
    /\ IF Len(rows_inputs) > 1
          THEN /\ filter_complex' = Append(filter_complex, VStack(rows_inputs))
               /\ output_map' = FinalLabel
               /\ k_pc' = "done"
               /\ UNCHANGED k_raised
          ELSE IF rows_inputs = <<>>
                  THEN /\ k_raised' = "IndexError"
                       /\ k_pc' = "raised"
                       /\ UNCHANGED <<filter_complex, output_map>>
                  ELSE /\ output_map' = rows_inputs[1]
                       /\ k_pc' = "done"
                       /\ UNCHANGED <<filter_complex, k_raised>>
    /\ UNCHANGED <<k_rows, k_cols, cell_width, cell_height, duration, video_files,
                   used_videos, video_params, rows_inputs, row>>
    /\ UNCHANGED <<gridVars, cropVars, samplerVars, driverVars>>

-----------------------------------------------------------------------------
(* create_video_grid_v2_advanced (lines 141-274), the driver *)

\* a // b of Python, which floors for a negative divisor too (b # 0)
PyFloorDiv(a, b) == IF b > 0 THEN a \div b ELSE (-a) \div (-b)

\* A path is the sequence of its components; a trailing slash leaves an empty
\* last component.  os.path.basename(path) is the last component.
Basename(path) == path[Len(path)]

\* file.lower().endswith('.mp4'), a file being its number and its extension
LowerExt == [e \in {"mp4", "MP4", "Mp4", "txt"} |-> IF e = "txt" THEN "txt" ELSE "mp4"]
IsMp4(file) == LowerExt[file.ext] = "mp4"

\* the files of a folder that holds n clips, written with the given extension
Clips(first, n, ext) == [k \in 1 .. n |-> [id |-> first + k - 1, ext |-> ext]]
Notes == <<[id |-> 9, ext |-> "txt"]>>

\* what os.walk yields below the top directory, by tree shape: (root, files)
\* with root relative to the directory that is walked
SubTrees ==
    {<<>>,
     <<<<<<"taskA">>, <<>>>>>>,
     <<<<<<"taskA">>, Clips(1, 1, "mp4")>>>>,
     <<<<<<"taskA">>, Clips(1, 3, "mp4") \o Notes>>>>,
     <<<<<<"taskA">>, Clips(1, 1, "MP4")>>, <<<<"taskB">>, Clips(1, 1, "Mp4")>>>>,
     <<<<<<"taskB">>, Clips(1, 2, "mp4")>>, <<<<"taskA">>, Clips(1, 1, "mp4")>>>>,
     <<<<<<"taskA">>, Notes>>, <<<<"taskB">>, Clips(1, 2, "mp4")>>>>,
     <<<<<<"clips">>, Clips(1, 1, "mp4")>>>>,
     <<<<<<"taskA">>, Clips(1, 1, "mp4")>>, <<<<"other">>, <<>>>>,
       <<<<"other", "taskA">>, Clips(2, 1, "mp4")>>>>}
\* the directory argument, without and with a trailing slash
Directories == {<<"clips">>, <<"clips", "">>}
\* os.path.join(directory, rel)
Join(directory, rel) ==
    IF Basename(directory) = "" THEN SubSeq(directory, 1, Len(directory) - 1) \o rel
    ELSE directory \o rel
\* the directories handed to the driver: the argument and what os.walk yields
\* for it, the top directory first
InputDirs ==
    {[directory |-> d,
      walk |-> <<[root |-> d, files |-> top]>>
               \o [j \in 1 .. Len(sub) |-> [root |-> Join(d, sub[j][1]), files |-> sub[j][2]]]]
     : d \in Directories, top \in {<<>>, Clips(1, 1, "mp4")}, sub \in SubTrees}

\* task_videos[folder_name].append(video_path) for the mp4 files of one folder;
\* a video path is kept as its folder name and the number of the file
RECURSIVE AppendVideos(_, _, _)
AppendVideos(tv, folder_name, ids) ==
    IF ids = <<>> THEN tv
    ELSE IF \E g \in 1 .. Len(tv) : tv[g][1] = folder_name
       THEN [g \in 1 .. Len(tv) |->
                IF tv[g][1] = folder_name
                   THEN <<folder_name,
                          tv[g][2] \o [k \in 1 .. Len(ids) |-> <<folder_name, ids[k].id>>]>>
                   ELSE tv[g]]
       ELSE Append(tv, <<folder_name, [k \in 1 .. Len(ids) |-> <<folder_name, ids[k].id>>]>>)

\* if folder_name and folder_name != os.path.basename(directory)
IsTaskFolder(folder_name, directory) ==
    folder_name # "" /\ folder_name # Basename(directory)

\* the loop over os.walk(directory), lines 32-38
RECURSIVE WalkFrom(_, _, _)
WalkFrom(dir, j, tv) ==
    IF j > Len(dir.walk) THEN tv
    ELSE WalkFrom(dir, j + 1,
            IF IsTaskFolder(Basename(dir.walk[j].root), dir.directory)
               THEN AppendVideos(tv, Basename(dir.walk[j].root),
                                 SelectSeq(dir.walk[j].files, IsMp4))
               ELSE tv)

\* find_mp4_files_by_task(directory): dict(task_videos), in insertion order
FindMp4FilesByTask(dir) == WalkFrom(dir, 1, <<>>)

\* (faulty variant: the run goes on without clips)
NoVideosNever(tv) == FALSE
\* if not task_videos
NoVideos(tv) == tv = <<>>

\* total_videos = sum(len(videos) for videos in task_videos.values())
RECURSIVE TotalVideos(_)
TotalVideos(tv) == IF tv = <<>> THEN 0 ELSE Len(tv[1][2]) + TotalVideos(Tail(tv))

\* the --grid values, None for a computed layout
GridLayouts == {None, <<1, 1>>, <<2, 2>>, <<1, 3>>, <<3, 1>>, <<0, 1>>, <<1, 0>>, <<-1, 2>>}
DriverCanvases == {<<1920, 1080>>, <<2, 2>>, <<2, 0>>}
DriverCaps == {0, 2}

\* what ffprobe reports for a clip: a property of the file
ClipDims(video) == IF video[2] = 1 THEN <<1920, 1080>> ELSE <<video[2], video[2] + 1>>

\* the exit status of the ffmpeg run
ExitCodes == {0, 1}
\* (faulty variant: the exit status is ignored)
SucceededAlways(code) == TRUE
\* subprocess.run(cmd, check=True) raises CalledProcessError on a non-zero status
Succeeded(code) == code = 0

DriverIdle ==
    /\ input_dir = [directory |-> <<>>, walk |-> <<>>] /\ grid_layout = None
    /\ d_target_width = 0 /\ d_target_height = 0
    /\ d_max_videos = 0 /\ d_shuffle = FALSE /\ d_crop_mode = "center"
    /\ probe_calls = 0 /\ layout_calls = 0 /\ engine_calls = 0 /\ exit_code = 0
    /\ d_result = None /\ d_pc = "idle" /\ d_raised = "none"

DriverInit ==
    /\ input_dir \in InputDirs
    /\ grid_layout \in GridLayouts
    /\ \E c \in DriverCanvases : d_target_width = c[1] /\ d_target_height = c[2]
    /\ d_max_videos \in DriverCaps
    /\ d_shuffle \in BOOLEAN
    /\ d_crop_mode \in {"center", "bottom"}
    /\ probe_calls = 0 /\ layout_calls = 0 /\ engine_calls = 0 /\ exit_code = 0
    /\ d_result = None /\ d_pc = "discover" /\ d_raised = "none"

\* lines 152-156: discovery; without clips the run ends with False
DriverDiscover ==
    /\ d_pc = "discover"
    /\ task_videos' = FindMp4FilesByTask(input_dir)
    /\ IF NoVideos(FindMp4FilesByTask(input_dir))
          THEN /\ d_result' = FALSE
               /\ d_pc' = "returned"
          ELSE /\ d_pc' = "layout"
               /\ UNCHANGED d_result
    /\ UNCHANGED <<input_dir, grid_layout, d_target_width, d_target_height, d_max_videos,
                   d_shuffle, d_crop_mode, probe_calls, layout_calls, engine_calls,
                   exit_code, d_raised>>
    /\ UNCHANGED <<grid_size, max_videos, shuffle, all_videos, selected_videos,
                   s_result, s_pc, s_raised>>
    /\ UNCHANGED <<gridVars, cropVars, compileVars>>

\* lines 166-169: "if grid_layout:" takes the override as it is;
\* target_width // cols and target_height // rows raise ZeroDivisionError on 0
DriverOverride ==
    /\ d_pc = "layout"
    /\ grid_layout # None
    /\ IF grid_layout[2] = 0 \/ grid_layout[1] = 0
          THEN /\ d_raised' = "ZeroDivisionError"
               /\ d_pc' = "raised"
               /\ UNCHANGED <<k_rows, k_cols, cell_width, cell_height>>
          ELSE /\ k_rows' = grid_layout[1]
               /\ k_cols' = grid_layout[2]
               /\ cell_width' = PyFloorDiv(d_target_width, grid_layout[2])
               /\ cell_height' = PyFloorDiv(d_target_height, grid_layout[1])
               /\ d_pc' = "select"
               /\ UNCHANGED d_raised
    /\ UNCHANGED <<input_dir, grid_layout, d_target_width, d_target_height, d_max_videos,
                   d_shuffle, d_crop_mode, probe_calls, layout_calls, engine_calls,
                   exit_code, d_result>>
    /\ UNCHANGED <<duration, video_files, used_videos, video_params, filter_complex,
                   rows_inputs, output_map, row, k_pc, k_raised>>
    /\ UNCHANGED <<gridVars, cropVars, samplerVars>>

\* lines 170-171: the call of calculate_optimal_grid(total_videos, ...)
DriverLayout ==
    /\ d_pc = "layout"
    /\ grid_layout = None
    /\ num_videos' = TotalVideos(task_videos)
    /\ target_width' = d_target_width
    /\ target_height' = d_target_height
    /\ g_rows' = 0 /\ best_ratio_diff' = Inf /\ best_layout' = None
    /\ g_pc' = "enter" /\ g_raised' = "none"
    /\ layout_calls' = layout_calls + 1
    /\ d_pc' = "layout_call"
    /\ UNCHANGED <<input_dir, grid_layout, d_target_width, d_target_height, d_max_videos,
                   d_shuffle, d_crop_mode, probe_calls, engine_calls, exit_code,
                   d_result, d_raised>>
    /\ UNCHANGED <<cropVars, samplerVars, compileVars>>

\* line 171: rows, cols, cell_width, cell_height = the returned layout; an
\* exception of the search leaves the driver, None cannot be unpacked
DriverLayoutReturn ==
    /\ d_pc = "layout_call"
    /\ g_pc \in {"done", "raised"}
    /\ IF g_pc = "raised" \/ best_layout = None
          THEN /\ d_raised' = (IF g_pc = "raised" THEN g_raised ELSE "TypeError")
               /\ d_pc' = "raised"
               /\ UNCHANGED <<k_rows, k_cols, cell_width, cell_height>>
          ELSE /\ k_rows' = best_layout[1]
               /\ k_cols' = best_layout[2]
               /\ cell_width' = best_layout[3]
               /\ cell_height' = best_layout[4]
               /\ d_pc' = "select"
               /\ UNCHANGED d_raised
    /\ UNCHANGED <<input_dir, grid_layout, d_target_width, d_target_height, d_max_videos,
                   d_shuffle, d_crop_mode, probe_calls, layout_calls, engine_calls,
                   exit_code, d_result>>
    /\ UNCHANGED <<duration, video_files, used_videos, video_params, filter_complex,
                   rows_inputs, output_map, row, k_pc, k_raised>>
    /\ UNCHANGED <<gridVars, cropVars, samplerVars>>

\* lines 173-182: the call of create_balanced_video_list(task_videos, grid_size,
\* max_videos, shuffle)
DriverSelect ==
    /\ d_pc = "select"
    /\ grid_size' = <<k_rows, k_cols>>
    /\ max_videos' = d_max_videos
    /\ shuffle' = d_shuffle
    /\ all_videos' = <<>> /\ selected_videos' = <<>> /\ s_result' = None
    /\ s_pc' = "collect" /\ s_raised' = "none"
    /\ d_pc' = "select_call"
    /\ UNCHANGED task_videos
    /\ UNCHANGED <<input_dir, grid_layout, d_target_width, d_target_height, d_max_videos,
                   d_shuffle, d_crop_mode, probe_calls, layout_calls, engine_calls,
                   exit_code, d_result, d_raised>>
    /\ UNCHANGED <<gridVars, cropVars, compileVars>>

\* lines 182-190: selected_videos = the returned plan; cmd and video_params start
DriverSelectReturn ==
    /\ d_pc = "select_call"
    /\ s_pc \in {"done", "raised"}
    /\ IF s_pc = "raised"
          THEN /\ d_raised' = s_raised
               /\ d_pc' = "raised"
               /\ UNCHANGED <<video_files, used_videos, video_params>>
          ELSE /\ video_files' = s_result
               /\ used_videos' = s_result
               /\ video_params' = <<>>
               /\ d_pc' = "probe"
               /\ UNCHANGED d_raised
    /\ UNCHANGED <<input_dir, grid_layout, d_target_width, d_target_height, d_max_videos,
                   d_shuffle, d_crop_mode, probe_calls, layout_calls, engine_calls,
                   exit_code, d_result>>
    /\ UNCHANGED <<k_rows, k_cols, cell_width, cell_height, duration, filter_complex,
                   rows_inputs, output_map, row, k_pc, k_raised>>
    /\ UNCHANGED <<gridVars, cropVars, samplerVars>>

\* lines 191-195: one pass of the loop over selected_videos, the probe answering
DriverProbe ==
    /\ d_pc = "probe"
    /\ Len(video_params) < Len(used_videos)
    /\ probe_calls' = probe_calls + 1
    /\ LET dims == ClipDims(used_videos[Len(video_params) + 1])
       IN  video_params' = Append(video_params, ParamsOf(d_crop_mode, dims[1], dims[2]))
    /\ UNCHANGED <<input_dir, grid_layout, d_target_width, d_target_height, d_max_videos,
                   d_shuffle, d_crop_mode, layout_calls, engine_calls, exit_code,
                   d_result, d_pc, d_raised>>
    /\ UNCHANGED <<k_rows, k_cols, cell_width, cell_height, duration, video_files,
                   used_videos, filter_complex, rows_inputs, output_map, row, k_pc,
                   k_raised>>
    /\ UNCHANGED <<gridVars, cropVars, samplerVars>>

\* line 193: ffprobe fails on the clip, get_video_info raises CalledProcessError
DriverProbeFails ==
    /\ d_pc = "probe"
    /\ Len(video_params) < Len(used_videos)
    /\ probe_calls' = probe_calls + 1
    /\ d_raised' = "CalledProcessError"
    /\ d_pc' = "raised"
    /\ UNCHANGED <<input_dir, grid_layout, d_target_width, d_target_height, d_max_videos,
                   d_shuffle, d_crop_mode, layout_calls, engine_calls, exit_code, d_result>>
    /\ UNCHANGED <<gridVars, cropVars, samplerVars, compileVars>>

\* line 206: the loop is over, the filter graph is built (lines 206-240)
DriverGraph ==
    /\ d_pc = "probe"
    /\ Len(video_params) = Len(used_videos)
    /\ k_pc' = "crops"
    /\ d_pc' = "graph"
    /\ UNCHANGED <<input_dir, grid_layout, d_target_width, d_target_height, d_max_videos,
                   d_shuffle, d_crop_mode, probe_calls, layout_calls, engine_calls,
                   exit_code, d_result, d_raised>>
    /\ UNCHANGED <<k_rows, k_cols, cell_width, cell_height, duration, video_files,
                   used_videos, video_params, filter_complex, rows_inputs, output_map,
                   row, k_raised>>
    /\ UNCHANGED <<gridVars, cropVars, samplerVars>>

\* lines 243-274: the command is completed and ffmpeg runs once; True on exit
\* status 0, False on CalledProcessError.  An IndexError of the graph leaves
\* the driver.
DriverRun ==
    /\ d_pc = "graph"
    /\ k_pc \in {"done", "raised"}
    /\ IF k_pc = "raised"
          THEN /\ d_raised' = k_raised
               /\ d_pc' = "raised"
               /\ UNCHANGED <<engine_calls, exit_code, d_result>>
          ELSE /\ engine_calls' = engine_calls + 1
               /\ \E code \in ExitCodes :
                     /\ exit_code' = code
                     /\ d_result' = Succeeded(code)
               /\ d_pc' = "returned"
               /\ UNCHANGED d_raised
    /\ UNCHANGED <<input_dir, grid_layout, d_target_width, d_target_height, d_max_videos,
                   d_shuffle, d_crop_mode, probe_calls, layout_calls>>
    /\ UNCHANGED <<gridVars, cropVars, samplerVars, compileVars>>

-----------------------------------------------------------------------------
(* Specifications *)

InitGrid == GridInit /\ CropIdle /\ SamplerIdle /\ CompileIdle /\ DriverIdle
NextGrid == GridEnter \/ GridIter \/ GridReturn
SpecGrid == InitGrid /\ [][NextGrid]_vars

InitCrop == CropInit /\ GridIdle /\ SamplerIdle /\ CompileIdle /\ DriverIdle
NextCrop == CropProbe \/ CropProbeFails \/ CropCompute
SpecCrop == InitCrop /\ [][NextCrop]_vars

InitSampler == SamplerInit /\ GridIdle /\ CropIdle /\ CompileIdle /\ DriverIdle
NextSampler == SamplerCollect \/ SamplerLimit \/ SamplerFill \/ SamplerShuffle \/ SamplerSelect
SpecSampler == InitSampler /\ [][NextSampler]_vars

InitCompile == CompileInit /\ GridIdle /\ CropIdle /\ SamplerIdle /\ DriverIdle
NextCompile == CompileUse \/ CompileCrops \/ CompileRow \/ CompileFinal
SpecCompile == InitCompile /\ [][NextCompile]_vars

\* a run of the driver with the functions and the graph statements it goes through
InitDriver ==
    /\ DriverInit /\ GridIdle /\ CropIdle /\ SamplerIdle
    /\ CompileUnset /\ duration \in Durations
NextDriver ==
    \/ DriverDiscover \/ DriverOverride \/ DriverLayout \/ DriverLayoutReturn
    \/ DriverSelect \/ DriverSelectReturn \/ DriverProbe \/ DriverProbeFails
    \/ DriverGraph \/ DriverRun
    \/ GridEnter \/ GridIter \/ GridReturn
    \/ SamplerCollect \/ SamplerLimit \/ SamplerFill \/ SamplerShuffle \/ SamplerSelect
    \/ CompileCrops \/ CompileRow \/ CompileFinal
SpecDriver == InitDriver /\ [][NextDriver]_vars

-----------------------------------------------------------------------------
(* Properties of calculate_optimal_grid, checked under SpecGrid *)

ValidGridInput == num_videos >= 1 /\ target_width > 0 /\ target_height > 0
GridRows == 1 .. (RowRangeEnd - 1)

\* C1: for every num_videos >= 1 and every canvas with width > 0 and height > 0 the
\* search raises nothing and returns a layout (never None) with rows >= 1,
\* cols >= 1 and rows * cols >= num_videos.
C1_LayoutFound ==
    ValidGridInput =>
        /\ g_raised = "none"
        /\ g_pc # "raised"
        /\ g_pc = "done" =>
              /\ best_layout # None
              /\ best_layout[1] >= 1
              /\ best_layout[2] >= 1
              /\ best_layout[1] * best_layout[2] >= num_videos

\* the search returned for more videos than row counts tried, on a grid with spare cells
C1_Witness ==
    /\ ValidGridInput
    /\ g_pc = "done"
    /\ num_videos > RowRangeEnd
    /\ best_layout # None
    /\ best_layout[1] * best_layout[2] > num_videos

\* |Ceil(n, q) / q - width / height| < |Ceil(n, r) / r - width / height| in exact
\* arithmetic (both sides multiplied by q * r * height)
ExactDiffLess(q, r) ==
    Abs(Ceil(num_videos, q) * target_height - target_width * q) * r
        < Abs(Ceil(num_videos, r) * target_height - target_width * r) * q

\* C2: the returned layout is the candidate (r, ceil(num_videos / r)), r in
\* range(1, 20), that minimizes |cols / r - width / height|, and among the
\* candidates of the same minimal difference it is the one with the smallest r.
C2_MinimalDiffSmallestRow ==
    (ValidGridInput /\ g_pc = "done") =>
        /\ best_layout # None
        /\ best_layout[1] \in GridRows
        /\ best_layout[2] = Ceil(num_videos, best_layout[1])
        /\ \A q \in GridRows :
              /\ ~ExactDiffLess(q, best_layout[1])
              /\ q < best_layout[1] => ExactDiffLess(best_layout[1], q)

\* C3: every layout returned for num_videos >= 1 and width, height > 0 has
\* cell_width = width div cols, cell_height = height div rows, both >= 1.
C3_CellSizesPositive ==
    (ValidGridInput /\ g_pc = "done") =>
        /\ best_layout # None
        /\ best_layout[3] = target_width \div best_layout[2]
        /\ best_layout[4] = target_height \div best_layout[1]
        /\ best_layout[3] >= 1
        /\ best_layout[4] >= 1

\* C4: with num_videos = 0 or width = 0 the search fails and returns no layout.
C4_InvalidInputFails ==
    (num_videos = 0 \/ target_width = 0) => g_pc # "done"

-----------------------------------------------------------------------------
(* Properties of get_video_crop_params, checked under SpecCrop *)

\* C5: for every source width > 0 and height > 0 and every crop_mode (center, top,
\* bottom or any other value) the crop window has size >= 1, offsets >= 0 and
\* lies inside the frame: crop_x + size <= width, crop_y + size <= height.
C5_CropInsideFrame ==
    (c_pc = "done" /\ width > 0 /\ height > 0) =>
        /\ square_size >= 1
        /\ crop_x >= 0
        /\ crop_y >= 0
        /\ crop_x + square_size <= width
        /\ crop_y + square_size <= height

\* a portrait source cropped at the bottom: the window ends on the last line
C5_Witness ==
    /\ c_pc = "done"
    /\ crop_mode = "bottom"
    /\ height > width
    /\ crop_y > 0
    /\ crop_y + square_size = height

\* C6: size = min(width, height) and crop_x = (width - size) div 2 for every
\* crop_mode; crop_y = (height - size) div 2 for center, 0 for top,
\* height - size for bottom, the center value for any other mode; a 1920x1080
\* source with center gives size 1080, crop_x 420, crop_y 0.
C6_CropValues ==
    c_pc = "done" =>
        /\ square_size <= width /\ square_size <= height
        /\ square_size = width \/ square_size = height
        /\ 2 * crop_x <= width - square_size
        /\ width - square_size <= 2 * crop_x + 1
        /\ crop_mode = "top" => crop_y = 0
        /\ crop_mode = "bottom" => crop_y + square_size = height
        /\ crop_mode \notin {"top", "bottom"} =>
              /\ 2 * crop_y <= height - square_size
              /\ height - square_size <= 2 * crop_y + 1
        /\ (width = 1920 /\ height = 1080 /\ crop_mode = "center") =>
              (square_size = 1080 /\ crop_x = 420 /\ crop_y = 0)

\* an unrecognized crop_mode on a 1080x1920 source falls back to the center window
C6_Witness ==
    /\ c_pc = "done"
    /\ crop_mode \notin {"center", "top", "bottom"}
    /\ width = 1080 /\ height = 1920
    /\ square_size = 1080 /\ crop_x = 0 /\ crop_y = 420

-----------------------------------------------------------------------------
(* Properties of create_balanced_video_list, checked under SpecSampler *)

\* the clips of all groups, in discovery order
SuppliedVideos == Videos(Flatten(task_videos))
Supply == Len(SuppliedVideos)
\* how many of them the max_videos cap lets through
CappedSupply == IF max_videos >= 1 /\ Supply > max_videos THEN max_videos ELSE Supply
Occurs(video, seq) == \E i \in 1 .. Len(seq) : seq[i] = video

\* C7: for groups holding at least one clip, every rows * cols >= 1, every
\* max_videos and both shuffle settings, the call raises nothing and returns a
\* plan of exactly rows * cols entries.
C7_PlanLength ==
    (Supply >= 1 /\ TotalSlots(grid_size) >= 1) =>
        /\ s_raised = "none"
        /\ s_pc # "raised"
        /\ s_pc = "done" => Len(s_result) = TotalSlots(grid_size)

\* a shuffled plan for a grid larger than the capped supply, the cap cutting clips
C7_Witness ==
    /\ s_pc = "done"
    /\ shuffle
    /\ max_videos >= 1
    /\ max_videos < Supply
    /\ max_videos < TotalSlots(grid_size)
    /\ Len(s_result) = TotalSlots(grid_size)

\* C9 as claimed: with total supply < rows * cols the plan has exactly rows * cols
\* entries and every supplied clip occurs in the extended sequence (all_videos
\* after the draws, before the final slice).
C9_EverySuppliedClipOccurs ==
    (s_pc = "done" /\ Supply < TotalSlots(grid_size)) =>
        /\ Len(s_result) = TotalSlots(grid_size)
        /\ \A i \in 1 .. Supply : Occurs(SuppliedVideos[i], Videos(all_videos))

\* C9 amended: with total supply < rows * cols, a returned plan has exactly
\* rows * cols entries and every clip that the max_videos cap lets through (the
\* first max_videos clips in discovery order when the cap is set and exceeded,
\* else all of them) occurs in the extended sequence.
C9_EveryCappedClipOccurs ==
    (s_pc = "done" /\ Supply < TotalSlots(grid_size)) =>
        /\ Len(s_result) = TotalSlots(grid_size)
        /\ Len(all_videos) = TotalSlots(grid_size)
        /\ \A i \in 1 .. CappedSupply : Occurs(SuppliedVideos[i], Videos(all_videos))

\* two clips pass the cap, a third is cut, and the shuffled grid repeats a clip
C9_Witness ==
    /\ s_pc = "done"
    /\ shuffle
    /\ CappedSupply >= 2
    /\ CappedSupply < Supply
    /\ Supply < TotalSlots(grid_size)
    /\ \A i \in 1 .. CappedSupply : Occurs(SuppliedVideos[i], Videos(all_videos))

\* C10: with no groups or with rows * cols <= 0 the call fails and returns no plan.
C10_InvalidInputFails ==
    (task_videos = <<>> \/ TotalSlots(grid_size) <= 0) => s_pc # "done"

\* C16: when max_videos is set and the flattened clips exceed it, the cap is
\* applied before any draw or shuffle: from the cap on, all_videos holds only
\* clips among the first max_videos of the discovery order, and so does every
\* entry of the returned plan, the repeated ones included.
C16_PlanWithinCap ==
    (max_videos >= 1 /\ Supply > max_videos) =>
        /\ s_pc \in {"fill", "shuffle", "select", "done"} =>
              \A i \in 1 .. Len(all_videos) :
                  \E j \in 1 .. max_videos : all_videos[i][1] = SuppliedVideos[j]
        /\ s_pc = "done" =>
              \A i \in 1 .. Len(s_result) :
                  \E j \in 1 .. max_videos : s_result[i] = SuppliedVideos[j]

\* a shuffled plan that repeats a capped clip while a discovered clip stays out
C16_Witness ==
    /\ s_pc = "done"
    /\ shuffle
    /\ max_videos >= 2
    /\ Supply > max_videos
    /\ Len(s_result) > max_videos
    /\ ~Occurs(SuppliedVideos[Supply], s_result)
    /\ \E i, j \in 1 .. Len(s_result) : i # j /\ s_result[i] = s_result[j]

-----------------------------------------------------------------------------
(* Properties of the filter graph, checked under SpecCompile *)

Cells == k_rows * k_cols
Nodes(kind) == SelectSeq(filter_complex, LAMBDA node : node.kind = kind)
CellNodeCount == Len(Nodes("cropscale")) + Len(Nodes("color"))
Produced(label, before) == \E m \in 1 .. (before - 1) : filter_complex[m].out = label
NodeOf(label) == filter_complex[CHOOSE m \in 1 .. Len(filter_complex) :
                                    filter_complex[m].out = label]

\* C11: in every emitted prefix of the node sequence, each label a node reads
\* was written by a node at an earlier position, and the label mapped as the
\* output was written by a node of the sequence.
C11_InputsProducedEarlier ==
    /\ \A i \in 1 .. Len(filter_complex) :
          \A j \in 1 .. Len(filter_complex[i].inputs) :
              Produced(filter_complex[i].inputs[j], i)
    /\ \A j \in 1 .. Len(rows_inputs) :
          Produced(rows_inputs[j], Len(filter_complex) + 1)
    /\ k_pc = "done" => Produced(output_map, Len(filter_complex) + 1)

\* a finished graph of several rows and columns whose stacks read clip and fill cells
C11_Witness ==
    /\ k_pc = "done"
    /\ k_rows >= 2 /\ k_cols >= 2
    /\ Len(used_videos) >= 1 /\ Len(used_videos) < Cells
    /\ Len(Nodes("hstack")) = k_rows
    /\ Len(Nodes("vstack")) = 1

\* C12: for a selection of at most rows * cols clips the finished graph has
\* rows * cols cell nodes, plus one node per row if cols > 1, plus one if rows > 1.
C12_NodeCount ==
    (k_pc = "done" /\ Len(video_files) <= Cells) =>
        /\ CellNodeCount = Cells
        /\ Len(filter_complex) = Cells + (IF k_cols > 1 THEN k_rows ELSE 0)
                                       + (IF k_rows > 1 THEN 1 ELSE 0)

\* a finished single-column graph with fill cells: no row nodes, one final node
C12_Witness ==
    /\ k_pc = "done"
    /\ k_cols = 1 /\ k_rows >= 3
    /\ Len(video_files) = 2
    /\ Len(Nodes("color")) = k_rows - 2
    /\ Len(filter_complex) = k_rows + 1

\* C13: a row gets an hstack node iff cols > 1 and the graph a vstack node iff
\* rows > 1; with one row the output is that row's node, and a 1x1 layout maps
\* the crop node of its clip with no stack node at all.
C13_StackNodes ==
    k_pc = "done" =>
        /\ Len(Nodes("hstack")) = (IF k_cols > 1 THEN k_rows ELSE 0)
        /\ Len(Nodes("vstack")) = (IF k_rows > 1 THEN 1 ELSE 0)
        /\ k_rows > 1 => NodeOf(output_map).kind = "vstack"
        /\ (k_rows = 1 /\ k_cols > 1) =>
              /\ NodeOf(output_map).kind = "hstack"
              /\ NodeOf(output_map) = filter_complex[Len(filter_complex)]
        /\ (k_rows = 1 /\ k_cols = 1) =>
              /\ filter_complex = <<CropScale(0, video_params[1], cell_width, cell_height)>>
              /\ output_map = filter_complex[1].out

\* a finished 1x1 graph
C13_Witness ==
    /\ k_pc = "done"
    /\ k_rows = 1 /\ k_cols = 1
    /\ Len(filter_complex) = 1
    /\ output_map = Label(PrefixV, 0)

\* C14 as claimed: a selection whose length differs from rows * cols makes the
\* compilation fail and emit no graph.
C14_LengthMismatchFails ==
    Len(video_files) # Cells => (filter_complex = <<>> /\ k_pc # "done")

\* C14 amended: no length makes the compilation fail; a longer selection is cut
\* to its first rows * cols clips, a shorter one is completed with fill nodes,
\* and the finished graph has exactly rows * cols cell nodes.
C14_MismatchIsCutOrFilled ==
    /\ k_raised = "none"
    /\ k_pc \in {"crops", "rows", "done"} =>
          used_videos = SubSeq(video_files, 1, Min(Len(video_files), Cells))
    /\ k_pc = "done" =>
          /\ Len(Nodes("cropscale")) = Min(Len(video_files), Cells)
          /\ Len(Nodes("color")) = Cells - Min(Len(video_files), Cells)
          /\ output_map # None

\* a finished graph compiled from more clips than cells
C14_Witness ==
    /\ k_pc = "done"
    /\ Len(video_files) > Cells
    /\ Cells >= 2
    /\ Len(Nodes("cropscale")) = Cells
    /\ filter_complex # <<>>

\* C15: the labels written by the nodes of one compilation are pairwise
\* distinct, and the label of a crop node is determined by its clip index.
C15_LabelsDistinct ==
    /\ \A i, j \in 1 .. Len(filter_complex) :
          filter_complex[i].out = filter_complex[j].out => i = j
    /\ \A i \in 1 .. Len(filter_complex) :
          filter_complex[i].kind = "cropscale" =>
              /\ filter_complex[i].src = i - 1
              /\ filter_complex[i].out = <<"[", "v">> \o Digits(i - 1) \o <<"]">>

\* a finished graph with two-digit clip indices, fill cells and row nodes
C15_Witness ==
    /\ k_pc = "done"
    /\ Len(Nodes("cropscale")) >= 12
    /\ Len(Nodes("color")) >= 1
    /\ Len(Nodes("hstack")) >= 3
    /\ Len(Nodes("vstack")) = 1

\* the label the graph reads for the cell at (r, c), both 0-based: the entry of
\* the row's stack node, or the row's input itself in a single-column layout
CellRef(r, c) ==
    IF k_cols > 1 THEN Nodes("hstack")[r + 1].inputs[c + 1] ELSE rows_inputs[r + 1]

\* C17: the cell at (row, col) with i = row * cols + col reads the crop node of
\* selection entry i when i < number of clips and else a fill node of the cell
\* size held for duration; stack inputs are in ascending column and row order.
C17_RowMajorFill ==
    k_pc = "done" =>
        /\ \A r \in 0 .. (k_rows - 1) : \A c \in 0 .. (k_cols - 1) :
              LET i == r * k_cols + c
                  node == NodeOf(CellRef(r, c))
              IN  IF i < Len(used_videos)
                     THEN /\ node.kind = "cropscale"
                          /\ node.src = i
                          /\ used_videos[i + 1] = video_files[i + 1]
                          /\ node.crop = <<video_params[i + 1].square_size,
                                           video_params[i + 1].square_size,
                                           video_params[i + 1].crop_x,
                                           video_params[i + 1].crop_y>>
                          /\ node.scale = <<cell_width, cell_height>>
                     ELSE /\ node.kind = "color"
                          /\ node.size = <<cell_width, cell_height>>
                          /\ node.duration = duration
        /\ k_cols > 1 =>
              \A r \in 0 .. (k_rows - 1) :
                  /\ Len(Nodes("hstack")[r + 1].inputs) = k_cols
                  /\ rows_inputs[r + 1] = Nodes("hstack")[r + 1].out
        /\ Len(rows_inputs) = k_rows
        /\ k_rows > 1 => filter_complex[Len(filter_complex)].inputs = rows_inputs

\* a finished graph whose third row starts with a clip and ends with fill cells,
\* the clips carrying different crops
C17_Witness ==
    /\ k_pc = "done"
    /\ k_rows >= 3 /\ k_cols >= 3
    /\ Len(used_videos) = 2 * k_cols + 1
    /\ video_params[1] # video_params[2]
    /\ NodeOf(CellRef(2, 0)).kind = "cropscale"
    /\ NodeOf(CellRef(2, 1)).kind = "color"

-----------------------------------------------------------------------------
(* Properties of the driver, checked under SpecDriver *)

\* rows > 0, cols > 0 and both cell sizes positive after the integer division
ValidOverride ==
    /\ grid_layout[1] > 0 /\ grid_layout[2] > 0
    /\ d_target_width \div grid_layout[2] > 0
    /\ d_target_height \div grid_layout[1] > 0

\* C18: an override with rows <= 0, cols <= 0 or a cell size of 0 is not
\* accepted: the run takes no layout from it, probes no clip and never starts
\* the transcode.
C18_InvalidOverrideFails ==
    (grid_layout # None /\ ~ValidOverride) =>
        /\ probe_calls = 0 /\ engine_calls = 0
        /\ k_rows = 0 /\ k_cols = 0
        /\ d_pc \in {"discover", "layout", "returned", "raised"}

\* C19: when discovery has returned no clips the run is over with the outcome
\* False: no layout was computed or taken, no clip selected or probed, no graph
\* built and the engine not invoked.
C19_NoClipsEndsRun ==
    (d_pc # "discover" /\ task_videos = <<>>) =>
        /\ d_pc = "returned" /\ d_result = FALSE /\ d_raised = "none"
        /\ layout_calls = 0 /\ probe_calls = 0 /\ engine_calls = 0
        /\ k_rows = 0 /\ k_cols = 0
        /\ g_pc = "idle" /\ s_pc = "idle" /\ k_pc = "idle"

\* a run ended on a directory whose only mp4 file lies in the root, with an override
C19_Witness ==
    /\ d_pc = "returned"
    /\ task_videos = <<>>
    /\ Len(input_dir.walk) = 1
    /\ SelectSeq(input_dir.walk[1].files, IsMp4) # <<>>
    /\ grid_layout # None
    /\ d_result = FALSE

\* C20: the engine is invoked at most once in a run; a non-zero exit status
\* ends the run with the outcome False, and only exit status 0 gives True.
C20_EngineAtMostOnce ==
    /\ engine_calls <= 1
    /\ engine_calls = 1 => d_pc = "returned"
    /\ (d_pc = "returned" /\ (engine_calls = 0 \/ exit_code # 0)) => d_result = FALSE
    /\ (d_pc = "returned" /\ engine_calls = 1 /\ exit_code = 0) => d_result = TRUE

\* a run whose single engine invocation failed
C20_Witness ==
    /\ d_pc = "returned"
    /\ engine_calls = 1
    /\ exit_code # 0
    /\ d_result = FALSE
    /\ probe_calls >= 2

\* C22: with at least rows * cols clips left after the max_videos cap, no clip
\* is drawn a second time and the returned plan holds no clip twice, shuffled or
\* not; a plan that repeats a clip comes from a capped supply below rows * cols.
C22_NoRepeatWhenSupplied ==
    /\ (s_pc \in {"fill", "shuffle", "select", "done"}
        /\ CappedSupply >= TotalSlots(grid_size)) =>
          \A i, j \in 1 .. Len(all_videos) : all_videos[i] = all_videos[j] => i = j
    /\ s_pc = "done" =>
          ((\E i, j \in 1 .. Len(s_result) : i # j /\ s_result[i] = s_result[j])
              => CappedSupply < TotalSlots(grid_size))

\* a shuffled plan that fills every cell from a capped supply, out of discovery order
C22_Witness ==
    /\ s_pc = "done"
    /\ shuffle
    /\ max_videos >= 2 /\ max_videos < Supply
    /\ CappedSupply >= TotalSlots(grid_size)
    /\ TotalSlots(grid_size) >= 2
    /\ Len(s_result) = TotalSlots(grid_size)
    /\ s_result[1] # SuppliedVideos[1]

-----------------------------------------------------------------------------
(* Properties of find_mp4_files_by_task, checked under SpecDriver *)

\* the mp4 files lying directly in the directory that is walked
TopClips == SelectSeq(input_dir.walk[1].files, IsMp4)
\* clips directly in the root and no subdirectory
FlatTree == Len(input_dir.walk) = 1 /\ TopClips # <<>>

\* C21: after discovery, a flat tree has given every clip of the root under one
\* single category, and every clip of a subdirectory is listed under the name
\* of the directory it lies in.
C21_DiscoveryCategories ==
    d_pc \notin {"idle", "discover"} =>
        /\ FlatTree =>
              /\ Len(task_videos) = 1
              /\ Len(task_videos[1][2]) = Len(TopClips)
        /\ \A j \in 2 .. Len(input_dir.walk) :
              \A k \in 1 .. Len(input_dir.walk[j].files) :
                  IsMp4(input_dir.walk[j].files[k]) =>
                      \E g \in 1 .. Len(task_videos) :
                          /\ task_videos[g][1] = Basename(input_dir.walk[j].root)
                          /\ Occurs(<<Basename(input_dir.walk[j].root),
                                      input_dir.walk[j].files[k].id>>,
                                    task_videos[g][2])

====
